---------------------------- MODULE Spec2Model ----------------------------
(***************************************************************************)
(* A model of the Nacos configuration client of src/src/lib.rs: the        *)
(* fingerprint cache `current_config`, the mutex that guards it, and the   *)
(* two paths of wait_for_new_config (first fetch, long-poll watch loop),   *)
(* run by concurrent callers against a server that answers each request   *)
(* with a transport failure or with a status and a body.                   *)
(*                                                                         *)
(* Text whose bytes matter (data ids, group, namespace, fingerprints, the  *)
(* Listening-Configs value, bodies) is a sequence of byte values.  Fixed   *)
(* literals that are only compared (paths, parameter names) are strings.   *)
(***************************************************************************)
EXTENDS Integers, Sequences, FiniteSets, TLC

(***************************************************************************)
(* MD5 (RFC 1321) as the md5 crate computes it, and hex::encode.  A 32-bit *)
(* word is a pair <<hi, lo>> of 16-bit halves.  The steps are functions,   *)
(* so that each is applied to values already computed.                     *)
(***************************************************************************)
Half == 65536
Half16 == 0..(Half - 1)
Word == Half16 \X Half16
Bytes == Seq(0..255)

bit_and[a \in Half16, b \in Half16, n \in 0..16] ==
    IF n = 0 THEN 0
    ELSE (a % 2) * (b % 2) + 2 * bit_and[a \div 2, b \div 2, n - 1]

bit_xor[a \in Half16, b \in Half16, n \in 0..16] ==
    IF n = 0 THEN 0
    ELSE ((a + b) % 2) + 2 * bit_xor[a \div 2, b \div 2, n - 1]

and32[x \in Word, y \in Word] ==
    <<bit_and[x[1], y[1], 16], bit_and[x[2], y[2], 16]>>
xor32[x \in Word, y \in Word] ==
    <<bit_xor[x[1], y[1], 16], bit_xor[x[2], y[2], 16]>>
not32[x \in Word] == <<(Half - 1) - x[1], (Half - 1) - x[2]>>
or32[x \in Word, y \in Word] == not32[and32[not32[x], not32[y]]]

add32[x \in Word, y \in Word] ==
    <<(x[1] + y[1] + ((x[2] + y[2]) \div Half)) % Half, (x[2] + y[2]) % Half>>

pow2[n \in 0..16] == IF n = 0 THEN 1 ELSE 2 * pow2[n - 1]

\* Rotation to the left by r < 16 bits.
rotl16[w \in Word, r \in 0..15] ==
    <<((w[1] * pow2[r]) % Half) + (w[2] \div pow2[16 - r]),
      ((w[2] * pow2[r]) % Half) + (w[1] \div pow2[16 - r])>>

rotl32[x \in Word, s \in 0..31] ==
    IF s >= 16 THEN rotl16[<<x[2], x[1]>>, s - 16] ELSE rotl16[x, s]

Md5K ==
    << <<55146, 42104>>, <<59591, 46934>>, <<9248, 28891>>, <<49597, 52974>>,
       <<62844, 4015>>, <<18311, 50730>>, <<43056, 17939>>, <<64838, 38145>>,
       <<27008, 39128>>, <<35652, 63407>>, <<65535, 23473>>, <<35164, 55230>>,
       <<27536, 4386>>, <<64920, 29075>>, <<42617, 17294>>, <<18868, 2081>>,
       <<63006, 9570>>, <<49216, 45888>>, <<9822, 23121>>, <<59830, 51114>>,
       <<54831, 4189>>, <<580, 5203>>, <<55457, 59009>>, <<59347, 64456>>,
       <<8673, 52710>>, <<49975, 2006>>, <<62677, 3463>>, <<17754, 5357>>,
       <<43491, 59653>>, <<64751, 41976>>, <<26479, 729>>, <<36138, 19594>>,
       <<65530, 14658>>, <<34673, 63105>>, <<28061, 24866>>, <<64997, 14348>>,
       <<42174, 59972>>, <<19422, 53161>>, <<63163, 19296>>, <<48831, 48240>>,
       <<10395, 32454>>, <<60065, 10234>>, <<54511, 12421>>, <<1160, 7429>>,
       <<55764, 53305>>, <<59099, 39397>>, <<8098, 31992>>, <<50348, 22117>>,
       <<62505, 8772>>, <<17194, 65431>>, <<43924, 9127>>, <<64659, 41017>>,
       <<25947, 22979>>, <<36620, 52370>>, <<65519, 62589>>, <<34180, 24017>>,
       <<28584, 32335>>, <<65068, 59104>>, <<41729, 17172>>, <<19976, 4513>>,
       <<63315, 32386>>, <<48442, 62005>>, <<10967, 53947>>, <<60294, 54161>> >>

Md5S ==
    << 7, 12, 17, 22, 7, 12, 17, 22, 7, 12, 17, 22, 7, 12, 17, 22,
       5, 9, 14, 20, 5, 9, 14, 20, 5, 9, 14, 20, 5, 9, 14, 20,
       4, 11, 16, 23, 4, 11, 16, 23, 4, 11, 16, 23, 4, 11, 16, 23,
       6, 10, 15, 21, 6, 10, 15, 21, 6, 10, 15, 21, 6, 10, 15, 21 >>

Md5Init ==
    << <<26437, 8961>>, <<61389, 43913>>, <<39098, 56574>>, <<4146, 21622>> >>

\* The message padded to a multiple of 64 bytes: 0x80, zeros, then the bit
\* length as 8 little-endian bytes (bodies here are far below 2^28 bytes).
md5_pad[msg \in Bytes] ==
    msg \o <<128>> \o [i \in 1..((119 - (Len(msg) % 64)) % 64) |-> 0]
        \o <<(Len(msg) * 8) % 256, ((Len(msg) * 8) \div 256) % 256,
             ((Len(msg) * 8) \div 65536) % 256,
             ((Len(msg) * 8) \div 16777216) % 256, 0, 0, 0, 0>>

\* The 32-bit word at bytes b+1..b+4 of p, little-endian.
md5_word[p \in Bytes, b \in Nat] ==
    <<p[b + 4] * 256 + p[b + 3], p[b + 2] * 256 + p[b + 1]>>

md5_f[i \in 0..63, b \in Word, c \in Word, d \in Word] ==
    IF i < 16 THEN or32[and32[b, c], and32[not32[b], d]]
    ELSE IF i < 32 THEN or32[and32[d, b], and32[not32[d], c]]
    ELSE IF i < 48 THEN xor32[xor32[b, c], d]
    ELSE xor32[c, or32[b, not32[d]]]

md5_g[i \in 0..63] ==
    IF i < 16 THEN i
    ELSE IF i < 32 THEN (5 * i + 1) % 16
    ELSE IF i < 48 THEN (3 * i + 5) % 16
    ELSE (7 * i) % 16

\* Round i on the state s = <<a, b, c, d>> with the message word w.
md5_round[s \in Seq(Word), w \in Word, i \in 0..63] ==
    <<s[4],
      add32[s[2], rotl32[add32[add32[add32[md5_f[i, s[2], s[3], s[4]], s[1]],
                                     Md5K[i + 1]], w],
                         Md5S[i + 1]]],
      s[2], s[3]>>

\* Rounds i..63 on the block of p that starts after `off` bytes.
md5_rounds[s \in Seq(Word), p \in Bytes, off \in Nat, i \in 0..64] ==
    IF i = 64 THEN s
    ELSE md5_rounds[md5_round[s, md5_word[p, off + 4 * md5_g[i]], i],
                    p, off, i + 1]

add_state[h \in Seq(Word), s \in Seq(Word)] ==
    <<add32[h[1], s[1]], add32[h[2], s[2]], add32[h[3], s[3]], add32[h[4], s[4]]>>

md5_blocks[h \in Seq(Word), p \in Bytes, off \in Nat] ==
    IF off >= Len(p) THEN h
    ELSE md5_blocks[add_state[h, md5_rounds[h, p, off, 0]], p, off + 64]

\* The 4 bytes of a word, little-endian.
word_bytes[w \in Word] ==
    <<w[2] % 256, w[2] \div 256, w[1] % 256, w[1] \div 256>>

state_bytes[h \in Seq(Word)] ==
    word_bytes[h[1]] \o word_bytes[h[2]] \o word_bytes[h[3]] \o word_bytes[h[4]]

\* Md5::new, update, finalize: the 16 digest bytes.
md5_digest[msg \in Bytes] == state_bytes[md5_blocks[Md5Init, md5_pad[msg], 0]]

\* hex::encode: two lowercase hexadecimal digits per byte.
hex_digit[v \in 0..15] == IF v < 10 THEN 48 + v ELSE 87 + v
RECURSIVE hex_digits(_, _)
hex_digits(bytes, n) ==
    IF n > Len(bytes) THEN <<>>
    ELSE <<hex_digit[bytes[n] \div 16], hex_digit[bytes[n] % 16]>>
             \o hex_digits(bytes, n + 1)
hex_encode[bytes \in Bytes] == hex_digits(bytes, 1)

(***************************************************************************)
(* Inputs: callers, data ids, bodies and the answers of the server.        *)
(***************************************************************************)
STX == 2
SOH == 1

\* The history counts the watch requests of a call up to MaxEmpty + 1: the
\* request after MaxEmpty "no change" answers is told from the ones before.
MaxEmpty == 1

Callers == {"c1", "c2"}

\* "d", and "e" followed by the reserved byte STX.
DataIds == {<<100>>, <<101, STX>>}

\* "", "a", "b"
Bodies == {<<>>, <<97>>, <<98>>}

\* Option<T>: None, or Some(v) holding one value.
None == <<>>
Some(v) == <<v>>

\* The clients: plain http without a namespace, https with the namespace "ns".
Configs == {<<FALSE, None>>, <<TRUE, Some(<<110, 115>>)>>}

\* What send().await can come back with: the send fails, or the head of a
\* response with its status.
SendError == [kind |-> "send_error"]
Statuses == {200, 304, 404, 500}
ResponseHead(status) == [kind |-> "head", status |-> status]
Heads == {SendError} \cup {ResponseHead(s) : s \in Statuses}

\* What bytes().await can come back with: the body, or the read fails.
BodyError == [ok |-> FALSE]
BodyBytes(b) == [ok |-> TRUE, bytes |-> b]
AllBodyReads == {BodyError} \cup {BodyBytes(b) : b \in Bodies}

\* A response whose body was read to the end, or not.
Response(status, body, complete) ==
    [kind |-> "response", status |-> status, body |-> body, complete |-> complete]

NoReply == [kind |-> "none"]
NoRequest == [method |-> "none"]
NoResult == [returned |-> FALSE]
Ok(v) == [returned |-> TRUE, ok |-> TRUE, val |-> v]
Err(e) == [returned |-> TRUE, ok |-> FALSE, err |-> e]
Free == "free"

VARIABLES
    use_https, server_addr, namespace, group,  \* the client's configuration
    current_config,   \* data id -> md5, a function on the ids seen so far
    mutex,            \* Free, or the caller that holds the cache's mutex
    pc,               \* where each caller is in wait_for_new_config
    data_id,          \* the argument of each caller's call
    config,           \* the local `config` of each caller
    md5,              \* the local `md5` of the watch loop of each caller
    request,          \* the request each caller is waiting on
    result,           \* what each caller's last call returned
    path,             \* history: what contains_key answered to each call
    reply,            \* the local `response` of each caller, and after the
                      \* call the last answer the call received
    nfetch,           \* history: fetch requests sent by the call in progress
    nwatch,           \* history: watch requests sent by the call in progress,
                      \* counted up to MaxEmpty + 1
    written,          \* history: the cache inserts of each caller's call
    last_ok,          \* history: data id -> the body last stored for it
    seen,             \* history: last_ok of the id when `md5` was read
    md5_memo          \* body -> md5_hex(body), computed once

config_vars == <<use_https, server_addr, namespace, group>>
call_vars == <<pc, data_id, config, md5, request, result>>
hist_vars == <<path, reply, nfetch, nwatch, written, last_ok, seen>>
vars == <<config_vars, current_config, mutex, call_vars, hist_vars, md5_memo>>

(***************************************************************************)
(* The pure parts of the client.                                           *)
(***************************************************************************)
\* update_md5, lines 103-106: the digest of the bytes, hex-encoded.
md5_hex(bytes) == hex_encode[md5_digest[bytes]]

make_url(suffix) ==
    (IF use_https THEN "https" ELSE "http") \o "://" \o server_addr \o suffix

\* Faulty variant: the namespace field is written even without a namespace.
listening_configs_always_ns(id, fingerprint) ==
    id \o <<STX>> \o group \o <<STX>> \o fingerprint \o <<STX>>
       \o (IF namespace # None THEN namespace[1] ELSE <<>>)
       \o <<SOH>>

\* The Listening-Configs value of the watch loop.
listening_configs(id, fingerprint) ==
    id \o <<STX>> \o group \o <<STX>> \o fingerprint
       \o (IF namespace # None THEN <<STX>> \o namespace[1] ELSE <<>>)
       \o <<SOH>>

\* The long-poll request of the watch loop.
listener_request(id, fingerprint) ==
    [method  |-> "POST",
     url     |-> make_url("/nacos/v1/cs/configs/listener"),
     headers |-> << <<"Long-Pulling-Timeout", "30000">> >>,
     query   |-> << <<"Listening-Configs", listening_configs(id, fingerprint)>> >>]

\* Faulty variant: without a namespace the tenant parameter is sent empty.
get_config_request_empty_tenant(id) ==
    [method  |-> "GET",
     url     |-> make_url("/nacos/v1/cs/configs"),
     headers |-> <<>>,
     query   |-> << <<"tenant", IF namespace # None THEN namespace[1] ELSE <<>> >>,
                    <<"group", group>>, <<"dataId", id>> >>]

\* The request of get_config.
get_config_request(id) ==
    [method  |-> "GET",
     url     |-> make_url("/nacos/v1/cs/configs"),
     headers |-> <<>>,
     query   |-> (IF namespace # None THEN << <<"tenant", namespace[1]>> >>
                  ELSE <<>>)
                 \o << <<"group", group>>, <<"dataId", id>> >>]

\* Response::error_for_status: an error for a 4xx or a 5xx status.
error_for_status(status) == status \in 400..599

\* send().await? and error_for_status()?: the status that passed, or the error.
send_result(h) ==
    IF h.kind = "send_error" THEN Err([kind |-> "transport"])
    ELSE IF error_for_status(h.status)
         THEN Err([kind |-> "status", status |-> h.status])
    ELSE Ok(h.status)

\* bytes().await: the bytes, or the error.
bytes_result(b) ==
    IF b.ok THEN Ok(b.bytes) ELSE Err([kind |-> "body"])

\* Faulty variant: an entry that is there already is kept (entry().or_insert).
insert_keep_first(map, k, v) ==
    [x \in (DOMAIN map) \cup {k} |-> IF x \in DOMAIN map THEN map[x] ELSE v]

\* Faulty variant: the value is written to every entry of the map.
insert_every(map, k, v) == [x \in (DOMAIN map) \cup {k} |-> v]

\* HashMap::insert.
insert(map, k, v) == [x \in (DOMAIN map) \cup {k} |-> IF x = k THEN v ELSE map[x]]

(***************************************************************************)
(* Nacos::new: an empty cache, and a configuration that never changes.     *)
(***************************************************************************)
Init ==
    /\ \E cfg \in Configs : use_https = cfg[1] /\ namespace = cfg[2]
    /\ server_addr = "192.168.10.252:8848"
    /\ group = <<71>>
    /\ current_config = <<>>
    /\ mutex = Free
    /\ pc = [c \in Callers |-> "idle"]
    /\ data_id = [c \in Callers |-> <<>>]
    /\ config = [c \in Callers |-> <<>>]
    /\ md5 = [c \in Callers |-> <<>>]
    /\ request = [c \in Callers |-> NoRequest]
    /\ result = [c \in Callers |-> NoResult]
    /\ path = [c \in Callers |-> "none"]
    /\ reply = [c \in Callers |-> NoReply]
    /\ nfetch = [c \in Callers |-> 0]
    /\ nwatch = [c \in Callers |-> 0]
    /\ written = [c \in Callers |-> <<>>]
    /\ last_ok = <<>>
    /\ seen = [c \in Callers |-> None]
    /\ md5_memo = [b \in Bodies |-> md5_hex(b)]

(***************************************************************************)
(* wait_for_new_config, one action per step between two suspension points. *)
(***************************************************************************)
\* A caller calls wait_for_new_config(id) and reaches the first lock().await.
Call(c, id) ==
    /\ pc[c] = "idle"
    /\ pc' = [pc EXCEPT ![c] = "check_lock"]
    /\ data_id' = [data_id EXCEPT ![c] = id]
    /\ result' = [result EXCEPT ![c] = NoResult]
    /\ path' = [path EXCEPT ![c] = "none"]
    /\ reply' = [reply EXCEPT ![c] = NoReply]
    /\ written' = [written EXCEPT ![c] = <<>>]
    /\ UNCHANGED <<config_vars, current_config, mutex, config, md5, request,
                   nfetch, nwatch, last_ok, seen, md5_memo>>

\* Where a caller stands once it holds the mutex it was waiting for.
locked_pc(p) ==
    IF p = "check_lock" THEN "check"
    ELSE IF p = "loop_lock" THEN "loop_get"
    ELSE "update"

\* current_config.lock().await completes: the mutex was free.
Acquire(c) ==
    /\ pc[c] \in {"check_lock", "loop_lock", "update_lock"}
    /\ mutex = Free
    /\ mutex' = c
    /\ pc' = [pc EXCEPT ![c] = locked_pc(pc[c])]
    /\ UNCHANGED <<config_vars, current_config, data_id, config, md5, request,
                   result, hist_vars, md5_memo>>

\* Faulty variant: the test of line 36 without its negation.
check_branch_inverted(c) ==
    IF data_id[c] \in DOMAIN current_config THEN "fetch" ELSE "loop_lock"

\* Faulty variant: the test of line 36 is lost and every call goes to the loop.
check_branch_always_loop(c) == "loop_lock"

\* Line 36: the branch taken for what contains_key answers.
check_branch(c) ==
    IF data_id[c] \in DOMAIN current_config THEN "loop_lock" ELSE "fetch"

\* Faulty variant: the guard of line 36 lives on into the branch.
check_unlock_held(c) == c

\* The mutex once the guard of line 36 is dropped.
check_unlock(c) == Free

\* Line 36: contains_key under the lock; the guard is dropped with the
\* condition, before either branch runs.
Check(c) ==
    /\ pc[c] = "check"
    /\ mutex = c
    /\ mutex' = check_unlock(c)
    /\ pc' = [pc EXCEPT ![c] = check_branch(c)]
    /\ path' = [path EXCEPT ![c] = IF data_id[c] \in DOMAIN current_config
                                    THEN "watch" ELSE "fetch"]
    /\ UNCHANGED <<config_vars, current_config, data_id, config, md5, request,
                   result, reply, nfetch, nwatch, written, last_ok, seen,
                   md5_memo>>

\* get_config, lines 91-97: the request is built and sent.
FetchSend(c) ==
    /\ pc[c] = "fetch"
    /\ request' = [request EXCEPT ![c] = get_config_request(data_id[c])]
    /\ nfetch' = [nfetch EXCEPT ![c] = @ + 1]
    /\ pc' = [pc EXCEPT ![c] = "fetch_wait"]
    /\ UNCHANGED <<config_vars, current_config, mutex, data_id, config, md5,
                   result, path, reply, nwatch, written, last_ok, seen,
                   md5_memo>>

\* The call ends with `res`: its locals and the history of its requests go.
Return(c, res) ==
    /\ pc' = [pc EXCEPT ![c] = "idle"]
    /\ result' = [result EXCEPT ![c] = res]
    /\ config' = [config EXCEPT ![c] = <<>>]
    /\ md5' = [md5 EXCEPT ![c] = <<>>]
    /\ request' = [request EXCEPT ![c] = NoRequest]
    /\ nfetch' = [nfetch EXCEPT ![c] = 0]
    /\ nwatch' = [nwatch EXCEPT ![c] = 0]
    /\ seen' = [seen EXCEPT ![c] = None]

\* The call goes on to update_md5 with the bytes it received.
ToUpdate(c, bytes) ==
    /\ pc' = [pc EXCEPT ![c] = "update_lock"]
    /\ config' = [config EXCEPT ![c] = bytes]
    /\ request' = [request EXCEPT ![c] = NoRequest]
    /\ UNCHANGED <<md5, result, nfetch, nwatch, seen>>

\* get_config, lines 97-98: send().await completes and the status is tested;
\* the call then waits for the body.
FetchHead(c, h) ==
    /\ pc[c] = "fetch_wait"
    /\ reply' = [reply EXCEPT ![c] = h]
    /\ IF send_result(h).ok
       THEN /\ pc' = [pc EXCEPT ![c] = "fetch_body"]
            /\ UNCHANGED <<config, md5, request, result, nfetch, nwatch, seen>>
       ELSE Return(c, send_result(h))
    /\ UNCHANGED <<config_vars, current_config, mutex, data_id, path, written,
                   last_ok, md5_memo>>

\* Faulty variant: an empty body of the fetch is taken for "no change" and
\* the call goes on into the watch loop.
FetchBody_empty_no_change(c, b) ==
    /\ pc[c] = "fetch_body"
    /\ reply' = [reply EXCEPT ![c] = Response(reply[c].status,
                                              IF b.ok THEN b.bytes ELSE <<>>, b.ok)]
    /\ IF ~bytes_result(b).ok THEN Return(c, bytes_result(b))
       ELSE IF bytes_result(b).val = <<>>
       THEN /\ pc' = [pc EXCEPT ![c] = "loop_lock"]
            /\ request' = [request EXCEPT ![c] = NoRequest]
            /\ UNCHANGED <<config, md5, result, nfetch, nwatch, seen>>
       ELSE ToUpdate(c, bytes_result(b).val)
    /\ UNCHANGED <<config_vars, current_config, mutex, data_id, path, written,
                   last_ok, md5_memo>>

\* get_config, line 99, and line 38: bytes().await completes.
FetchBody(c, b) ==
    /\ pc[c] = "fetch_body"
    /\ reply' = [reply EXCEPT ![c] = Response(reply[c].status,
                                              IF b.ok THEN b.bytes ELSE <<>>, b.ok)]
    /\ IF bytes_result(b).ok
       THEN ToUpdate(c, bytes_result(b).val)
       ELSE Return(c, bytes_result(b))
    /\ UNCHANGED <<config_vars, current_config, mutex, data_id, path, written,
                   last_ok, md5_memo>>

\* Faulty variant: the hasher is finalized without the bytes.
update_md5_no_bytes(c, bytes) == md5_memo[<<>>]

\* The fingerprint update_md5 stores for the bytes it is given.
update_md5(c, bytes) == md5_memo[bytes]

\* Faulty variant: the guard of the insert is leaked and the mutex stays locked.
Update_guard_leaked(c) ==
    /\ pc[c] = "update"
    /\ mutex = c
    /\ current_config' = insert(current_config, data_id[c], update_md5(c, config[c]))
    /\ written' = [written EXCEPT
                     ![c] = Append(@, <<data_id[c], update_md5(c, config[c])>>)]
    /\ last_ok' = [x \in (DOMAIN last_ok) \cup {data_id[c]} |->
                      IF x = data_id[c] THEN config[c] ELSE last_ok[x]]
    /\ Return(c, Ok(config[c]))
    /\ UNCHANGED <<config_vars, mutex, data_id, path, reply, md5_memo>>

\* update_md5, line 108, then lines 40 and 73: the insert under the lock,
\* and the call returns the bytes.
Update(c) ==
    /\ pc[c] = "update"
    /\ mutex = c
    /\ current_config' = insert(current_config, data_id[c], update_md5(c, config[c]))
    /\ mutex' = Free
    /\ written' = [written EXCEPT
                     ![c] = Append(@, <<data_id[c], update_md5(c, config[c])>>)]
    /\ last_ok' = [x \in (DOMAIN last_ok) \cup {data_id[c]} |->
                      IF x = data_id[c] THEN config[c] ELSE last_ok[x]]
    /\ Return(c, Ok(config[c]))
    /\ UNCHANGED <<config_vars, data_id, path, reply, md5_memo>>

\* Faulty variant: the fingerprint is read before the loop, once, and kept.
LoopGet_once(c) ==
    /\ pc[c] = "loop_get"
    /\ mutex = c
    /\ mutex' = Free
    /\ IF data_id[c] \in DOMAIN current_config
       THEN /\ md5' = [md5 EXCEPT ![c] = IF nwatch[c] = 0
                                         THEN current_config[data_id[c]] ELSE @]
            /\ seen' = [seen EXCEPT ![c] = IF nwatch[c] = 0
                                           THEN Some(last_ok[data_id[c]]) ELSE @]
            /\ pc' = [pc EXCEPT ![c] = "watch"]
       ELSE /\ pc' = [pc EXCEPT ![c] = "panicked"]
            /\ UNCHANGED <<md5, seen>>
    /\ UNCHANGED <<config_vars, current_config, data_id, config, request,
                   result, path, reply, nfetch, nwatch, written, last_ok,
                   md5_memo>>

\* Faulty variant: the guard taken for the read lives on through the iteration.
LoopGet_guard_kept(c) ==
    /\ pc[c] = "loop_get"
    /\ mutex = c
    /\ data_id[c] \in DOMAIN current_config
    /\ md5' = [md5 EXCEPT ![c] = current_config[data_id[c]]]
    /\ seen' = [seen EXCEPT ![c] = Some(last_ok[data_id[c]])]
    /\ pc' = [pc EXCEPT ![c] = "watch"]
    /\ UNCHANGED <<config_vars, current_config, mutex, data_id, config, request,
                   result, path, reply, nfetch, nwatch, written, last_ok,
                   md5_memo>>

\* Lines 43-49: the fingerprint is read under the lock; unwrap panics on None
\* and the unwinding drops the guard.
LoopGet(c) ==
    /\ pc[c] = "loop_get"
    /\ mutex = c
    /\ mutex' = Free
    /\ IF data_id[c] \in DOMAIN current_config
       THEN /\ md5' = [md5 EXCEPT ![c] = current_config[data_id[c]]]
            /\ seen' = [seen EXCEPT ![c] = Some(last_ok[data_id[c]])]
            /\ pc' = [pc EXCEPT ![c] = "watch"]
       ELSE /\ pc' = [pc EXCEPT ![c] = "panicked"]
            /\ UNCHANGED <<md5, seen>>
    /\ UNCHANGED <<config_vars, current_config, data_id, config, request,
                   result, path, reply, nfetch, nwatch, written, last_ok,
                   md5_memo>>

\* Faulty variant: the request carries the fingerprint of a fresh, empty hasher.
watch_fingerprint_fresh(c) == md5_memo[<<>>]

\* Line 54: the fingerprint a watch request carries.
watch_fingerprint(c) == md5[c]

\* Lines 50-66: the Listening-Configs value is built and the request sent.
WatchSend(c) ==
    /\ pc[c] = "watch"
    /\ request' = [request EXCEPT
                     ![c] = listener_request(data_id[c], watch_fingerprint(c))]
    /\ nwatch' = [nwatch EXCEPT ![c] = IF @ <= MaxEmpty THEN @ + 1 ELSE @]
    /\ pc' = [pc EXCEPT ![c] = "watch_wait"]
    /\ UNCHANGED <<config_vars, current_config, mutex, data_id, config, md5,
                   result, path, reply, nfetch, written, last_ok, seen,
                   md5_memo>>

\* Faulty variant: the test of line 69 the wrong way round.
no_new_config_inverted(bytes) == bytes # <<>>

\* Faulty variant: the test of line 69 is lost and every body counts as new content.
no_new_config_never(bytes) == FALSE

\* Line 69: config.is_empty().
no_new_config(bytes) == bytes = <<>>

\* Lines 66-67: send().await completes and the status is tested; the call
\* then waits for the body.
WatchHead(c, h) ==
    /\ pc[c] = "watch_wait"
    /\ reply' = [reply EXCEPT ![c] = h]
    /\ IF send_result(h).ok
       THEN /\ pc' = [pc EXCEPT ![c] = "watch_body"]
            /\ UNCHANGED <<config, md5, request, result, nfetch, nwatch, seen>>
       ELSE Return(c, send_result(h))
    /\ UNCHANGED <<config_vars, current_config, mutex, data_id, path, written,
                   last_ok, md5_memo>>

\* Lines 68-74: bytes().await completes.  On an empty body the loop goes
\* round; `md5` and `seen` stay as they are until the next iteration reads
\* the cache again.
WatchBody(c, b) ==
    /\ pc[c] = "watch_body"
    /\ reply' = [reply EXCEPT ![c] = Response(reply[c].status,
                                              IF b.ok THEN b.bytes ELSE <<>>, b.ok)]
    /\ IF ~bytes_result(b).ok THEN Return(c, bytes_result(b))
       ELSE IF no_new_config(bytes_result(b).val)
       THEN /\ pc' = [pc EXCEPT ![c] = "loop_lock"]
            /\ request' = [request EXCEPT ![c] = NoRequest]
            /\ UNCHANGED <<config, md5, result, nfetch, nwatch, seen>>
       ELSE ToUpdate(c, bytes_result(b).val)
    /\ UNCHANGED <<config_vars, current_config, mutex, data_id, path, written,
                   last_ok, md5_memo>>

Next ==
    \E c \in Callers :
        \/ \E id \in DataIds : Call(c, id)
        \/ Acquire(c)
        \/ Check(c)
        \/ FetchSend(c)
        \/ \E h \in Heads : FetchHead(c, h)
        \/ \E b \in AllBodyReads : FetchBody(c, b)
        \/ Update(c)
        \/ LoopGet(c)
        \/ WatchSend(c)
        \/ \E h \in Heads : WatchHead(c, h)
        \/ \E b \in AllBodyReads : WatchBody(c, b)

Spec == Init /\ [][Next]_vars

(***************************************************************************)
(* Scheduling.  The runtime polls every task that can go on, and each      *)
(* request comes back with some answer: a caller's enabled step is taken   *)
(* (weak fairness).  The tokio mutex hands the lock to its waiters in      *)
(* turn, so a waiter that finds it free again and again gets it (strong    *)
(* fairness).  Whether and when a caller calls is up to the caller.        *)
(***************************************************************************)
Proceed(c) ==
    \/ Check(c)
    \/ FetchSend(c)
    \/ \E h \in Heads : FetchHead(c, h)
    \/ \E b \in AllBodyReads : FetchBody(c, b)
    \/ Update(c)
    \/ LoopGet(c)
    \/ WatchSend(c)
    \/ \E h \in Heads : WatchHead(c, h)
    \/ \E b \in AllBodyReads : WatchBody(c, b)

Fairness == \A c \in Callers : WF_vars(Proceed(c)) /\ SF_vars(Acquire(c))

\* The client of the first test, without a namespace: what the requests
\* carry has no part in how the calls are scheduled.
LiveInit == Init /\ use_https = FALSE /\ namespace = None

\* The callers call for one id, "d": the mutex is one for all ids, and calls
\* for the same id are the ones that meet in both branches of line 36.
LiveIds == {<<100>>}

LiveNext ==
    \E c \in Callers :
        \/ \E id \in LiveIds : Call(c, id)
        \/ Acquire(c)
        \/ Proceed(c)

LiveSpec == LiveInit /\ [][LiveNext]_vars /\ Fairness

(***************************************************************************)
(* Vocabulary of the properties.                                           *)
(***************************************************************************)
\* Caller c waits for the answer to its fetch, or to its watch request: for
\* the head of the response or, after that, for its body.
FetchOut(c) == pc[c] \in {"fetch_wait", "fetch_body"}
WatchOut(c) == pc[c] \in {"watch_wait", "watch_body"}

\* The step ends the wait for the answer to caller c's request; reply'[c] is
\* the answer: the failed send, the head with the status that was refused,
\* or the response with its body.
Answered(c) == request[c] # NoRequest /\ request'[c] = NoRequest

\* The step ends caller c's call; result'[c] is what it returns.
Returns(c) == pc[c] # "idle" /\ pc'[c] = "idle"

\* A successful response: the transport delivered it whole with a 2xx status.
Success(r) == r.kind = "response" /\ r.complete /\ r.status \in 200..299

\* A failed request: the transport failed or the status is not 2xx.
Failed(r) == r.kind # "none" /\ ~Success(r)

\* The path and the query parameters of the two kinds of request.
IsFetch(req) ==
    /\ req.method = "GET"
    /\ req.url \in {"http://192.168.10.252:8848/nacos/v1/cs/configs",
                    "https://192.168.10.252:8848/nacos/v1/cs/configs"}
IsWatch(req) ==
    /\ req.method = "POST"
    /\ req.url \in {"http://192.168.10.252:8848/nacos/v1/cs/configs/listener",
                    "https://192.168.10.252:8848/nacos/v1/cs/configs/listener"}

(***************************************************************************)
(* C1.  A call made when the cache has no entry for its id issues exactly  *)
(* one fetch request and no watch request, and when that request is        *)
(* answered successfully the call returns exactly the body of the answer.  *)
(***************************************************************************)
\* While the call runs: at most the one fetch request, never a watch request.
C1_Requests(c) ==
    path[c] = "fetch" /\ pc[c] # "idle" =>
        /\ pc[c] \in {"fetch", "fetch_wait", "fetch_body", "update_lock", "update"}
        /\ nwatch[c] = 0
        /\ nfetch[c] = IF pc[c] = "fetch" THEN 0 ELSE 1
        /\ FetchOut(c) => IsFetch(request[c])

\* When the call ends: one fetch was sent, and a successful answer's body is
\* what the call returns.
C1_Return(c) ==
    Returns(c) /\ path[c] = "fetch" =>
        /\ nfetch[c] = 1 /\ nwatch[c] = 0
        /\ Success(reply'[c]) => result'[c] = Ok(reply'[c].body)

C1_FetchOnceAndReturnBody ==
    [][\A c \in Callers : C1_Requests(c) /\ C1_Requests(c)' /\ C1_Return(c)]_vars

\* A first call has returned the body "a" of its fetch.
C1_Witness ==
    \E c \in Callers :
        /\ pc[c] = "idle" /\ path[c] = "fetch"
        /\ reply[c] = Response(200, <<97>>, TRUE)
        /\ result[c] = Ok(<<97>>)

(***************************************************************************)
(* C2.  When a call returns bytes, by the fetch path or by the watch path, *)
(* the cache entry of its id is the fingerprint of exactly those bytes:    *)
(* their MD5 digest in lowercase hexadecimal.                              *)
(***************************************************************************)
\* "d41d8cd98f00b204e9800998ecf8427e", the MD5 of the empty message.
Md5OfEmpty ==
    <<100, 52, 49, 100, 56, 99, 100, 57, 56, 102, 48, 48, 98, 50, 48, 52,
      101, 57, 56, 48, 48, 57, 57, 56, 101, 99, 102, 56, 52, 50, 55, 101>>

\* "0cc175b9c0f1b6a831c399e269772661", the MD5 of "a".
Md5OfA ==
    <<48, 99, 99, 49, 55, 53, 98, 57, 99, 48, 102, 49, 98, 54, 97, 56,
      51, 49, 99, 51, 57, 57, 101, 50, 54, 57, 55, 55, 50, 54, 54, 49>>

\* "92eb5ffee6ae2fec3ad71c777531578f", the MD5 of "b".
Md5OfB ==
    <<57, 50, 101, 98, 53, 102, 102, 101, 101, 54, 97, 101, 50, 102, 101, 99,
      51, 97, 100, 55, 49, 99, 55, 55, 55, 53, 51, 49, 53, 55, 56, 102>>

\* The fingerprint of a body, from the published digests.
Fingerprint(bytes) ==
    IF bytes = <<>> THEN Md5OfEmpty ELSE IF bytes = <<97>> THEN Md5OfA ELSE Md5OfB

C2_Return(c) ==
    Returns(c) /\ result'[c].ok =>
        /\ data_id[c] \in DOMAIN current_config'
        /\ current_config'[data_id[c]] = Fingerprint(result'[c].val)
        /\ written'[c] = << <<data_id[c], Fingerprint(result'[c].val)>> >>

C2_CacheHoldsFingerprintOfReturned ==
    [][\A c \in Callers : C2_Return(c)]_vars

\* A watch has returned "b" for an id whose entry is the fingerprint of "b".
C2_Witness ==
    \E c \in Callers :
        /\ pc[c] = "idle" /\ path[c] = "watch"
        /\ result[c] = Ok(<<98>>)
        /\ current_config[data_id[c]] = Md5OfB

(***************************************************************************)
(* C3.  A call made when its id has a cache entry sends only watch         *)
(* requests, never a fetch request, and its first watch request carries    *)
(* the fingerprint that the last successful call stored for the id.        *)
(***************************************************************************)
\* The Listening-Configs value for an id and a fingerprint, field by field.
ExpectedListening(id, fp) ==
    IF namespace = None
    THEN id \o <<STX>> \o group \o <<STX>> \o fp \o <<SOH>>
    ELSE id \o <<STX>> \o group \o <<STX>> \o fp \o <<STX>> \o namespace[1] \o <<SOH>>

C3_OnlyWatchWithStoredFingerprint ==
    \A c \in Callers :
        path[c] = "watch" /\ pc[c] # "idle" =>
            /\ pc[c] \in {"loop_lock", "loop_get", "watch", "watch_wait",
                          "watch_body", "update_lock", "update"}
            /\ nfetch[c] = 0
            /\ WatchOut(c) /\ nwatch[c] = 1 =>
                /\ IsWatch(request[c])
                /\ seen[c] # None
                /\ request[c].query =
                     << <<"Listening-Configs",
                          ExpectedListening(data_id[c], Fingerprint(seen[c][1]))>> >>

\* A second call waits on its first watch request, which carries the
\* fingerprint of the "a" that the first call returned.
C3_Witness ==
    \E c \in Callers :
        /\ path[c] = "watch" /\ pc[c] = "watch_wait" /\ nwatch[c] = 1
        /\ seen[c] = Some(<<97>>)
        /\ request[c].query[1][2] = ExpectedListening(data_id[c], Md5OfA)

(***************************************************************************)
(* C4 (as claimed).  When a request is answered with a status that is not  *)
(* 2xx, or its transport fails, the call returns an error and has left the *)
(* cache as it was.                                                        *)
(***************************************************************************)
C4_Step(c) ==
    Answered(c) /\ Failed(reply'[c]) =>
        /\ Returns(c)
        /\ ~result'[c].ok
        /\ written'[c] = <<>>
        /\ current_config' = current_config

C4_ErrorLeavesCacheUnchanged ==
    [][\A c \in Callers : C4_Step(c)]_vars

(***************************************************************************)
(* C5 (amended).  A watch request answered successfully with an empty body *)
(* does not end the call and is no error: the cache stays as it is and the *)
(* call sends another watch request.  That request carries the fingerprint *)
(* the call reads from the cache again, which is the fingerprint of the    *)
(* request before unless another call has stored new content for the id    *)
(* in between.                                                             *)
(***************************************************************************)
C5_EmptyAnswer(c) ==
    (/\ Answered(c) /\ pc[c] = "watch_body"
     /\ Success(reply'[c]) /\ reply'[c].body = <<>>)
    => (/\ pc'[c] = "loop_lock"
        /\ result'[c] = NoResult
        /\ written'[c] = <<>>
        /\ current_config' = current_config)

\* The next iteration reads the cache: the fingerprint of the request before,
\* when no other call has stored for the id since that was read.
C5_NextRead(c) ==
    (/\ pc[c] = "loop_get" /\ pc'[c] # "loop_get" /\ nwatch[c] >= 1
     /\ data_id[c] \in DOMAIN last_ok /\ seen[c] = Some(last_ok[data_id[c]]))
    => (/\ pc'[c] = "watch"
        /\ md5'[c] = md5[c])

\* The next request carries the fingerprint that was read.
C5_NextRequest(c) ==
    pc[c] = "watch" /\ pc'[c] # "watch" =>
        /\ pc'[c] = "watch_wait"
        /\ nwatch'[c] = (IF nwatch[c] <= MaxEmpty THEN nwatch[c] + 1 ELSE nwatch[c])
        /\ IsWatch(request'[c])
        /\ request'[c].query =
             << <<"Listening-Configs", ExpectedListening(data_id[c], md5[c])>> >>

C5_EmptyAnswerPollsAgain ==
    [][\A c \in Callers :
          C5_EmptyAnswer(c) /\ C5_NextRead(c) /\ C5_NextRequest(c)]_vars

(***************************************************************************)
(* C5 (as claimed).  After an empty answer the call's next watch request   *)
(* carries the unchanged fingerprint, that of the request before, whatever *)
(* other calls do.                                                         *)
(***************************************************************************)
C5_NextReadUnchanged(c) ==
    (pc[c] = "loop_get" /\ pc'[c] # "loop_get" /\ nwatch[c] >= 1)
    => (pc'[c] = "watch" /\ md5'[c] = md5[c])

C5_EmptyAnswerSameFingerprint ==
    [][\A c \in Callers :
          C5_EmptyAnswer(c) /\ C5_NextReadUnchanged(c) /\ C5_NextRequest(c)]_vars

\* After an empty 200 answer the call waits on its second watch request, which
\* carries the fingerprint of "a" again.
C5_Witness ==
    \E c \in Callers :
        /\ pc[c] = "watch_wait" /\ nwatch[c] = 2
        /\ reply[c] = Response(200, <<>>, TRUE)
        /\ request[c].query[1][2] = ExpectedListening(data_id[c], Md5OfA)
        /\ current_config[data_id[c]] = Md5OfA

(***************************************************************************)
(* C6.  Round trip for a single caller: after a call returned the content  *)
(* C1, a call whose watch requests are answered with empty bodies and then *)
(* with the non-empty content C2 returns exactly C2, and the cache entry   *)
(* goes from the fingerprint of C1 to the fingerprint of C2.               *)
(***************************************************************************)
\* No other caller has ever called.
SingleCaller(c) ==
    \A d \in Callers \ {c} : pc[d] = "idle" /\ result[d] = NoResult

C6_Return(c) ==
    SingleCaller(c) /\ Returns(c) /\ path[c] = "watch" /\ result'[c].ok =>
        /\ reply[c].kind = "response" /\ reply[c].complete
        /\ reply[c].body # <<>>
        /\ result'[c] = Ok(reply[c].body)
        /\ nwatch[c] \in 1..(MaxEmpty + 1)
        /\ seen[c] = Some(last_ok[data_id[c]])
        /\ md5[c] = Fingerprint(last_ok[data_id[c]])
        /\ current_config[data_id[c]] = Fingerprint(last_ok[data_id[c]])
        /\ current_config' =
             [current_config EXCEPT ![data_id[c]] = Fingerprint(reply[c].body)]

C6_RoundTrip ==
    [][\A c \in Callers : C6_Return(c)]_vars

\* A single caller fetched "a", then watched and got "b".
C6_Witness ==
    \E c \in Callers :
        /\ SingleCaller(c)
        /\ pc[c] = "idle" /\ path[c] = "watch"
        /\ result[c] = Ok(<<98>>)
        /\ DOMAIN current_config = {data_id[c]}
        /\ current_config[data_id[c]] = Md5OfB

(***************************************************************************)
(* C7.  No lock is held across a network call: a caller with a request     *)
(* outstanding does not hold the mutex; the mutex is held exactly during   *)
(* one lookup or one insert and released by the holder's next step, so at  *)
(* most one caller is at the cache at a time and only the holder changes   *)
(* it.                                                                     *)
(***************************************************************************)
AtCache(c) == pc[c] \in {"check", "loop_get", "update"}

C7_State ==
    /\ \A c \in Callers :
          /\ FetchOut(c) \/ WatchOut(c) => mutex # c /\ request[c] # NoRequest
          /\ request[c] # NoRequest => mutex # c
          /\ mutex = c <=> AtCache(c)
    /\ Cardinality({c \in Callers : AtCache(c)}) <= 1

C7_Step ==
    /\ \A c \in Callers : mutex = c /\ pc'[c] # pc[c] => mutex' = Free
    /\ current_config' # current_config =>
          mutex \in Callers /\ pc[mutex] = "update"

C7_NoLockAcrossNetwork ==
    [][C7_State /\ C7_State' /\ C7_Step]_vars

\* One caller waits for the server while another is inside the critical
\* section.
C7_Witness ==
    \E c, d \in Callers :
        /\ c # d
        /\ pc[c] = "watch_body" /\ request[c] # NoRequest
        /\ mutex = d /\ pc[d] = "update"

(***************************************************************************)
(* C8 (as claimed).  Once a request of a call fails, by a transport error  *)
(* or a status that is not a success, the call sends nothing more and ends *)
(* with the error.                                                         *)
(***************************************************************************)
C8_Step(c) ==
    Answered(c) /\ Failed(reply'[c]) =>
        /\ pc'[c] = "idle"
        /\ result'[c].returned /\ ~result'[c].ok
        /\ request'[c] = NoRequest

C8_NoRetryAfterFailure ==
    [][\A c \in Callers : C8_Step(c)]_vars

(***************************************************************************)
(* C9 (as claimed).  Entries are never removed: the ids in the cache only  *)
(* grow, and an id enters the cache only through a successful fetch of     *)
(* that id: a call that took the fetch path for it, whose one fetch        *)
(* request was answered successfully, stores and returns the body.         *)
(***************************************************************************)
C9_Step(id) ==
    /\ id \in DOMAIN current_config => id \in DOMAIN current_config'
    /\ id \notin DOMAIN current_config /\ id \in DOMAIN current_config' =>
          \E c \in Callers :
              /\ pc[c] = "update" /\ data_id[c] = id
              /\ path[c] = "fetch" /\ nfetch[c] = 1 /\ nwatch[c] = 0
              /\ Success(reply[c]) /\ reply[c].body = config[c]
              /\ Returns(c) /\ result'[c] = Ok(config[c])

C9_EntriesNeverRemoved ==
    [][\A id \in DataIds : C9_Step(id)]_vars

(***************************************************************************)
(* C10.  For a data id, group, fingerprint and namespace without the bytes *)
(* 0x01 and 0x02, the Listening-Configs value is dataId STX group STX      *)
(* fingerprint [STX namespace] SOH: two STX without a namespace, three     *)
(* with one, and a single SOH, at the end.                                 *)
(***************************************************************************)
Clean(str) == \A i \in 1..Len(str) : str[i] \notin {SOH, STX}
Count(str, b) == Cardinality({i \in 1..Len(str) : str[i] = b})

C10_Value(c) ==
    LET v == request[c].query[1][2]
    IN  /\ v = ExpectedListening(data_id[c], md5[c])
        /\ Count(v, STX) = IF namespace = None THEN 2 ELSE 3
        /\ Count(v, SOH) = 1
        /\ v[Len(v)] = SOH

C10_ListeningConfigsFraming ==
    \A c \in Callers :
        (/\ WatchOut(c)
         /\ Clean(data_id[c]) /\ Clean(group) /\ Clean(md5[c])
         /\ (namespace # None => Clean(namespace[1])))
        => C10_Value(c)

\* A watch request for "d" of the client with the namespace "ns" is out:
\* d STX G STX fingerprint STX ns SOH.
C10_Witness ==
    \E c \in Callers :
        /\ pc[c] = "watch_wait" /\ data_id[c] = <<100>> /\ namespace = Some(<<110, 115>>)
        /\ request[c].query[1][2] =
             <<100, STX, 71, STX>> \o Md5OfB \o <<STX, 110, 115, SOH>>

(***************************************************************************)
(* C11.  The fetch request carries the tenant parameter if and only if a   *)
(* namespace is configured, and then with the namespace as its value;      *)
(* without a namespace no tenant parameter is sent at all, not even an     *)
(* empty one; dataId and group are sent in either case.                    *)
(***************************************************************************)
\* The values the query sends under a key.
Param(query, key) == {query[i][2] : i \in {j \in 1..Len(query) : query[j][1] = key}}

C11_TenantOnlyWithNamespace ==
    \A c \in Callers :
        FetchOut(c) =>
            /\ IsFetch(request[c])
            /\ Param(request[c].query, "tenant") =
                  (IF namespace = None THEN {} ELSE {namespace[1]})
            /\ Param(request[c].query, "group") = {group}
            /\ Param(request[c].query, "dataId") = {data_id[c]}
            /\ Len(request[c].query) = IF namespace = None THEN 2 ELSE 3

\* A fetch of the client without a namespace is out, with two parameters.
C11_Witness ==
    \E c \in Callers :
        /\ pc[c] = "fetch_wait" /\ namespace = None
        /\ request[c].query = << <<"group", <<71>> >>, <<"dataId", <<100>> >> >>

(***************************************************************************)
(* C12.  The watch loop reads the fingerprint from the cache again at the  *)
(* top of every iteration, and each watch request carries the value that   *)
(* was read for it.  A request that is outstanding keeps its fingerprint   *)
(* when another caller stores new content for the same id; the watcher's   *)
(* next iteration reads the new value and its next request carries it.     *)
(***************************************************************************)
\* Every iteration, the first and the later ones, takes the cache's value.
C12_Read(c) ==
    (/\ pc[c] = "loop_get" /\ pc'[c] # "loop_get"
     /\ data_id[c] \in DOMAIN current_config)
    => (/\ pc'[c] = "watch"
        /\ md5'[c] = current_config[data_id[c]]
        /\ seen'[c] = Some(last_ok[data_id[c]]))

\* The request that is out carries what its iteration read.
C12_Carried(c) ==
    WatchOut(c) =>
        /\ seen[c] # None
        /\ md5[c] = Fingerprint(seen[c][1])
        /\ request[c].query =
             << <<"Listening-Configs", ExpectedListening(data_id[c], md5[c])>> >>

\* While the request is out, nothing that happens to the cache changes it.
C12_Outstanding(c) ==
    WatchOut(c) /\ WatchOut(c)' =>
        request'[c] = request[c] /\ md5'[c] = md5[c]

C12_FingerprintReadEachIteration ==
    [][\A c \in Callers :
          /\ C12_Read(c) /\ C12_Outstanding(c)
          /\ C12_Carried(c) /\ C12_Carried(c)']_vars

\* A watch request for an id is out with the fingerprint of "a" while the
\* cache already holds the fingerprint of "b", stored by the other caller's
\* watch.
C12_Witness ==
    \E c, d \in Callers :
        /\ c # d
        /\ pc[c] = "watch_body" /\ md5[c] = Md5OfA
        /\ request[c].query[1][2] = ExpectedListening(data_id[c], Md5OfA)
        /\ current_config[data_id[c]] = Md5OfB
        /\ data_id[d] = data_id[c] /\ path[d] = "watch" /\ result[d] = Ok(<<98>>)

(***************************************************************************)
(* C13.  The watch loop has no deadline and no cap of its own: it goes     *)
(* round once more for every empty answer, however many there are.  Under  *)
(* fair scheduling, with every request answered, every call that was made  *)
(* completes, with content or with an error, unless the server answers its *)
(* watch requests with an empty body forever.                              *)
(***************************************************************************)
\* The loop goes round: an empty body came and the call polls again.
EmptyAgain(c) == pc[c] = "watch_body" /\ pc'[c] = "loop_lock"

C13_EveryCallCompletes ==
    \A c \in Callers :
        \/ []<>(pc[c] = "idle")
        \/ []<><<EmptyAgain(c)>>_vars

\* A watch call has gone round the loop for every empty answer the server
\* gave and is about to complete with the content that came at last.
C13_Witness ==
    \E c \in Callers :
        /\ path[c] = "watch" /\ pc[c] = "update_lock"
        /\ nwatch[c] = MaxEmpty + 1
        /\ reply[c] = Response(200, <<98>>, TRUE) /\ config[c] = <<98>>

(***************************************************************************)
(* C14.  On the fetch path an empty body is content like any other: a      *)
(* fetch answered successfully with zero bytes goes straight on to the     *)
(* cache update, the call returns the empty bytes without another request  *)
(* and the id is tracked with the fingerprint of the empty content.  Only  *)
(* the watch path reads an empty body as "no change", so a watch never     *)
(* returns empty bytes.                                                    *)
(***************************************************************************)
C14_EmptyFetch(c) ==
    (/\ Answered(c) /\ pc[c] = "fetch_body"
     /\ Success(reply'[c]) /\ reply'[c].body = <<>>)
    => (/\ pc'[c] = "update_lock"
        /\ config'[c] = <<>>
        /\ request'[c] = NoRequest)

C14_FetchReturn(c) ==
    (/\ Returns(c) /\ path[c] = "fetch"
     /\ Success(reply[c]) /\ reply[c].body = <<>>)
    => (/\ result'[c] = Ok(<<>>)
        /\ nfetch[c] = 1 /\ nwatch[c] = 0
        /\ data_id[c] \in DOMAIN current_config'
        /\ current_config'[data_id[c]] = Md5OfEmpty)

C14_WatchReturn(c) ==
    Returns(c) /\ path[c] = "watch" /\ result'[c].ok => result'[c].val # <<>>

C14_EmptyFetchIsContent ==
    [][\A c \in Callers :
          C14_EmptyFetch(c) /\ C14_FetchReturn(c) /\ C14_WatchReturn(c)]_vars

\* A first call has returned the empty content and its id is tracked.
C14_Witness ==
    \E c \in Callers :
        /\ pc[c] = "idle" /\ path[c] = "fetch"
        /\ reply[c] = Response(200, <<>>, TRUE)
        /\ result[c] = Ok(<<>>)
        /\ data_id[c] \in DOMAIN current_config
        /\ current_config[data_id[c]] = Md5OfEmpty

(***************************************************************************)
(* C15.  The lookup of the watch loop never fails: in every interleaving,  *)
(* a call that found its id in the cache finds it there again whenever it  *)
(* reads the cache at the top of an iteration, so the unwrap of line 48    *)
(* never panics.                                                           *)
(***************************************************************************)
C15_LookupNeverFails ==
    \A c \in Callers :
        /\ pc[c] # "panicked"
        /\ pc[c] \in {"loop_lock", "loop_get", "watch", "watch_wait", "watch_body"} =>
              /\ path[c] = "watch"
              /\ data_id[c] \in DOMAIN current_config

\* A watcher holds the lock for the lookup of its second iteration while the
\* other caller is in a call for the other id.
C15_Witness ==
    \E c, d \in Callers :
        /\ c # d
        /\ pc[c] = "loop_get" /\ mutex = c /\ nwatch[c] = 1
        /\ data_id[c] \in DOMAIN current_config
        /\ pc[d] = "update_lock" /\ data_id[d] # data_id[c]

(***************************************************************************)
(* C16.  The check of line 36 and the insert of line 108 are two critical  *)
(* sections, so fetches are not de-duplicated: two concurrent calls for    *)
(* the same id that was never seen can both find it absent; each then      *)
(* sends its own fetch request and neither sends a watch request, and the  *)
(* entry ends as the fingerprint of the body whose update came last.       *)
(***************************************************************************)
\* Two calls in progress that both found the same id absent.
BothUnseen(c, d) ==
    /\ c # d /\ data_id[c] = data_id[d]
    /\ path[c] = "fetch" /\ path[d] = "fetch"
    /\ pc[c] # "idle" /\ pc[d] # "idle"

\* Each has its own fetch request, none a watch request.
C16_OwnFetch(c, d) ==
    BothUnseen(c, d) =>
        /\ nwatch[c] = 0 /\ nwatch[d] = 0
        /\ nfetch[c] = (IF pc[c] = "fetch" THEN 0 ELSE 1)
        /\ nfetch[d] = (IF pc[d] = "fetch" THEN 0 ELSE 1)
        /\ FetchOut(c) => IsFetch(request[c])

\* Every update that is applied replaces what an earlier one stored.
C16_LastWins(c) ==
    Returns(c) /\ path[c] = "fetch" /\ result'[c].ok =>
        /\ current_config'[data_id[c]] = Fingerprint(config[c])
        /\ last_ok'[data_id[c]] = config[c]

\* The entry is the fingerprint of the body stored last.
C16_Entry(id) ==
    id \in DOMAIN current_config =>
        id \in DOMAIN last_ok /\ current_config[id] = Fingerprint(last_ok[id])

C16_FetchesNotDeduplicated ==
    [][/\ \A c, d \in Callers : C16_OwnFetch(c, d) /\ C16_OwnFetch(c, d)'
       /\ \A c \in Callers : C16_LastWins(c)
       /\ \A id \in DataIds : C16_Entry(id) /\ C16_Entry(id)']_vars

\* Both callers found "d" absent; one fetched "a" and stored it, the other
\* fetched "b" and stored it after that: the entry is the fingerprint of "b".
C16_Witness ==
    \E c, d \in Callers :
        /\ c # d /\ data_id[c] = <<100>> /\ data_id[d] = <<100>>
        /\ path[c] = "fetch" /\ path[d] = "fetch"
        /\ pc[c] = "idle" /\ pc[d] = "idle"
        /\ result[c] = Ok(<<97>>) /\ result[d] = Ok(<<98>>)
        /\ written[c] = << <<data_id[c], Md5OfA>> >>
        /\ written[d] = << <<data_id[d], Md5OfB>> >>
        /\ last_ok[<<100>>] = <<98>>
        /\ current_config[<<100>>] = Md5OfB

(***************************************************************************)
(* C17 (as claimed).  Every value in the cache is the fingerprint of a     *)
(* body that the server delivered for that id in a successful response: a  *)
(* fetch body, or a watch body that is not empty.  The cache changes only  *)
(* when such a body is stored; nothing is stored for an empty watch answer *)
(* or for a failed response.                                               *)
(***************************************************************************)
\* The cache changes for id only by a call for id storing the body of the
\* successful answer it has just received.
C17_Stored(id) ==
    (\/ id \in DOMAIN current_config' /\ id \notin DOMAIN current_config
     \/ id \in DOMAIN current_config /\ current_config'[id] # current_config[id])
    => \E c \in Callers :
          /\ pc[c] = "update" /\ data_id[c] = id
          /\ Success(reply[c]) /\ reply[c].body = config[c]
          /\ path[c] = "watch" => reply[c].body # <<>>
          /\ current_config'[id] = Fingerprint(reply[c].body)

\* The answers for which a call stores nothing: the step that takes such an
\* answer leaves the cache alone, and no later step of the call stores for it.
C17_NothingStored(c) ==
    (/\ Answered(c)
     /\ \/ Failed(reply'[c])
        \/ pc[c] = "watch_body" /\ reply'[c].kind = "response" /\ reply'[c].body = <<>>)
    => (/\ current_config' = current_config
        /\ written'[c] = <<>>
        /\ pc'[c] \notin {"update_lock", "update"})

C17_OnlyDeliveredBodies ==
    [][/\ \A id \in DataIds : C17_Stored(id)
       /\ \A c \in Callers : C17_NothingStored(c)]_vars

(***************************************************************************)
(* C18.  A call of wait_for_new_config(a) changes at most the entry of a:  *)
(* every step of the call leaves the presence and the value of the entry   *)
(* of every other id b as they are.  No call changes the client's scheme,  *)
(* address, namespace or group.                                            *)
(***************************************************************************)
\* The entry of b is the same before and after the step.
SameEntry(b) ==
    /\ b \in DOMAIN current_config' <=> b \in DOMAIN current_config
    /\ b \in DOMAIN current_config => current_config'[b] = current_config[b]

\* A step of caller c's call, for the id the call was made with.
C18_Frame(c) ==
    pc'[c] # pc[c] => \A b \in DataIds \ {data_id'[c]} : SameEntry(b)

C18_OnlyOwnEntry ==
    [][/\ \A c \in Callers : C18_Frame(c)
       /\ use_https' = use_https /\ server_addr' = server_addr
       /\ namespace' = namespace /\ group' = group]_vars

\* Both ids are tracked with "a"; a watch for "d" has then stored and
\* returned "b", and the entry of the other id still is the fingerprint of "a".
C18_Witness ==
    \E c \in Callers :
        /\ pc[c] = "idle" /\ path[c] = "watch" /\ data_id[c] = <<100>>
        /\ result[c] = Ok(<<98>>)
        /\ DOMAIN current_config = DataIds
        /\ current_config[<<100>>] = Md5OfB
        /\ current_config[<<101, STX>>] = Md5OfA

(***************************************************************************)
(* C19.  The mutex of the cache causes neither deadlock nor starvation:    *)
(* under fair scheduling every caller that waits for the mutex gets it,    *)
(* since every holder gives it back by its own next step, without waiting  *)
(* for an answer of the server or for another lock.                        *)
(***************************************************************************)
Waiting(c) == pc[c] \in {"check_lock", "loop_lock", "update_lock"}

C19_NoStarvation ==
    \A c \in Callers :
        /\ Waiting(c) ~> (mutex = c)
        /\ (mutex = c) ~> (mutex # c)

\* One caller waits to store what it fetched while the other holds the mutex
\* for the lookup of its watch loop.
C19_Witness ==
    \E c, d \in Callers :
        /\ c # d
        /\ pc[c] = "update_lock" /\ path[c] = "fetch"
        /\ mutex = d /\ pc[d] = "loop_get"

=============================================================================
